---- MODULE Spec2Model ----
(***************************************************************************)
(* Model of the cdk-api-stepfunction stacks.                               *)
(*                                                                         *)
(*  - Spec:         the input-validating state machine                     *)
(*                  'Dynamo_StateMachine' (lib/cdk-api-stepfunction-stack   *)
(*                  .ts, second stack), one action per state of the         *)
(*                  definition.                                             *)
(*  - SpecParallel: the parallel-get stack (first stack of the same file):  *)
(*                  its constructor, the Parallel state with the SDK        *)
(*                  getItem branch and the Lambda branch, and the three     *)
(*                  versions of the Lambda get handler.                     *)
(***************************************************************************)
EXTENDS Naturals, Sequences, FiniteSets, TLC

VARIABLES
    \* ---- Dynamo_StateMachine stack -------------------------------------
    ddbTable,      \* the 'orderid' table: the set of order ids that have an item
    input,         \* the input document of the current execution
    doc,           \* the JSON document ($) handed to the current state
    state,         \* name of the state to run next ("" when none)
    status,        \* "idle" | "running" | "succeeded" | "failed"
    history,       \* names of the states entered by the current execution
    eventBus,      \* the entries put on the EventBridge bus, oldest first
    executions,    \* number of executions started so far
    \* ---- parallel-get stack --------------------------------------------
    ctor,          \* position in the stack's constructor
    resources,     \* construct ids that have a resource in the template
    grants,        \* <<grantee, permission>> pairs granted on the table
    entry,         \* which version of src/lambda/index.ts is bundled
    ddbTableP,     \* the 'id'/'name' table: the set of <<id, name>> items
    pstatus,       \* status of the Parallel execution
    lambdaBranch,  \* status of the lamdbdaGetToDDB branch
    sdkBranch,     \* status of the sdkGetToDDB branch
    branchOut,     \* output document of each branch that succeeded
    poutput,       \* output of the Parallel state
    gets,          \* the keys of the DynamoDB gets issued, by issuer
    hpc,           \* position of the Lambda handler
    request,       \* the handler's AWS.Request: "none" | "inflight" | "done"
    settled,       \* how the awaited value settled: "no" | "resolved" | "rejected"
    getcmd,        \* result of the get (data or error), once known
    output,        \* the handler's 'output' variable
    callbackRuns,  \* times the callback passed to ddbclient.get has run
    hresult,       \* what the handler invocation produced
    pexecutions    \* number of Parallel executions started so far

dvars == <<ddbTable, input, doc, state, status, history, eventBus, executions>>
pvars == <<ctor, resources, grants, entry, ddbTableP, pstatus, lambdaBranch,
           sdkBranch, branchOut, poutput, gets, hpc, request, settled, getcmd,
           output, callbackRuns, hresult, pexecutions>>
vars == <<dvars, pvars>>

\* ---- bounds -------------------------------------------------------------
MaxExecutions == 2
MaxParallelExecutions == 2

\* ---- JSON values ---------------------------------------------------------
Str(s) == [type |-> "string", val |-> s]
Num(s) == [type |-> "number", val |-> s]
Null == [type |-> "null", val |-> ""]

\* An object is a function from its field names to values; an absent field
\* is not in the domain.
EmptyObject == [k \in {} |-> Null]
Field(k, v) == k :> v
Put(obj, k, v) == (k :> v) @@ obj

Has(obj, k) == k \in DOMAIN obj

\* ---- conditions of the Choice states (Condition.isPresent / stringEquals) --
\* isPresent('$.a.b'): the path selects a value (null included).
isPresent(d, a, b) == Has(d, a) /\ Has(d[a], b)

\* stringEquals('$.a.b', s): false when the value is not a string.
stringEquals(d, a, b, s) ==
    /\ isPresent(d, a, b)
    /\ d[a][b].type = "string"
    /\ d[a][b].val = s

\* ---- input documents ----------------------------------------------------
Absent == [type |-> "absent", val |-> ""]
OrderIds == {"o1", "o2"}
MethodValues == {Str("get"), Str("put"), Str("delete"), Num("1")}
OrderIdValues == {Str(o) : o \in OrderIds} \cup {Str(""), Num("7")}

MkBody(m, o) ==
    (IF m = Absent THEN EmptyObject ELSE Field("method", m)) @@
    (IF o = Absent THEN EmptyObject ELSE Field("orderid", o))

Bodies == {MkBody(m, o) : m \in MethodValues \cup {Absent},
                          o \in OrderIdValues \cup {Absent}}
Inputs == {EmptyObject} \cup {Field("body", b) : b \in Bodies}

\* ---- names of the states of Dynamo_StateMachine ---------------------------
CheckMethodExists == "Check if method field exists"
CheckMethodValue == "Check value of method field"
CheckOrderIdPresent == "Check if order id field is present"
GetRecord == "Get Record from DynamoDB"
CheckDdbRecord == "Check Order ID in DynamoDB"
PassFound == "PASS - Order ID found in DynamoDB"
PassNotFound == "OrderID field not found in dynamodb"
PassNoOrderId == "No OrderID field found in input"
PassPut == "PUT request input received"
PassUnknownMethod == "unknown method value found in input"
PassNoMethod == "no method field found in input"

LogFound == "LOG - Order ID found in DynamoDB"
ErrNotFound == "ERROR - OrderID not found in DynamoDB"
ErrNoOrderId == "ERROR - No OrderID field found in input"
LogPut == "LOG - PUT request input received"
ErrUnknownMethod == "ERROR - unknown method value in input"
ErrNoMethod == "ERROR - no method field in input"

\* The states built by putEventBridgeRecord: one per log string.
LogStrings == {LogFound, ErrNotFound, ErrNoOrderId, LogPut, ErrUnknownMethod,
               ErrNoMethod}

\* ---- permissions of Dynamo_StateMachine -----------------------------------
StateMachineGrants == {<<"dynamodb", "ReadData">>, <<"logs", "Write">>,
                       <<"events", "PutEvents">>}

\* ---- helpers of the interpreter --------------------------------------------
\* The state named s runs next.
At(s) == status = "running" /\ state = s

\* The state s has run and hands d to the state n.
Goto(s, n, d) ==
    /\ history' = Append(history, s)
    /\ state' = n
    /\ doc' = d
    /\ status' = "running"

\* The state s has run and was the last one (End: true).
EndAt(s, d) ==
    /\ history' = Append(history, s)
    /\ state' = ""
    /\ doc' = d
    /\ status' = "succeeded"

\* The task s failed: no Catch, no Retry, the execution fails.
FailAt(s) ==
    /\ history' = Append(history, s)
    /\ state' = ""
    /\ doc' = doc
    /\ status' = "failed"

\* ---- Dynamo_StateMachine ---------------------------------------------------
StartExecution ==
    /\ status # "running"
    /\ executions < MaxExecutions
    /\ \E i \in Inputs :
         /\ input' = i
         /\ doc' = i
    /\ state' = CheckMethodExists
    /\ status' = "running"
    /\ history' = <<>>
    /\ executions' = executions + 1
    /\ UNCHANGED <<ddbTable, eventBus, pvars>>

MethodFieldPresent == isPresent(doc, "body", "method")
\* Mutant: 'put' is taken for 'get' as well.
MethodIsGetOrPut ==
    \/ stringEquals(doc, "body", "method", "get")
    \/ stringEquals(doc, "body", "method", "put")
MethodIsGet == stringEquals(doc, "body", "method", "get")
MethodIsPut == stringEquals(doc, "body", "method", "put")
OrderIdFieldPresent == isPresent(doc, "body", "orderid")
ItemPresent == isPresent(doc, "sdkget", "Item")

CheckIfMethodFieldExists ==
    /\ At(CheckMethodExists)
    /\ IF MethodFieldPresent
       THEN Goto(CheckMethodExists, CheckMethodValue, doc)
       ELSE Goto(CheckMethodExists, PassNoMethod, doc)
    /\ UNCHANGED <<ddbTable, input, eventBus, executions, pvars>>

CheckValueOfMethodField ==
    /\ At(CheckMethodValue)
    /\ IF MethodIsGet
       THEN Goto(CheckMethodValue, CheckOrderIdPresent, doc)
       ELSE IF MethodIsPut
            THEN Goto(CheckMethodValue, PassPut, doc)
            ELSE Goto(CheckMethodValue, PassUnknownMethod, doc)
    /\ UNCHANGED <<ddbTable, input, eventBus, executions, pvars>>

CheckIfOrderIdFieldIsPresent ==
    /\ At(CheckOrderIdPresent)
    /\ IF OrderIdFieldPresent
       THEN Goto(CheckOrderIdPresent, GetRecord, doc)
       ELSE Goto(CheckOrderIdPresent, PassNoOrderId, doc)
    /\ UNCHANGED <<ddbTable, input, eventBus, executions, pvars>>

\* The response of GetItem for the key {orderid: {S: id}}.
GetItemResult(id) ==
    IF id \in ddbTable
    THEN Field("Item", Field("orderid", Str(id)))
    ELSE EmptyObject

\* The request is one DynamoDB accepts: 'S.$' selects a non-empty string and
\* the state machine may read the table.
GetItemAccepted ==
    /\ <<"dynamodb", "ReadData">> \in StateMachineGrants
    /\ doc.body.orderid.type = "string"
    /\ doc.body.orderid.val # ""

\* Mutant: a Catch on the task sends a failed GetItem to the error record.
sdkGetDdbRecordWithCatch ==
    /\ At(GetRecord)
    /\ \/ /\ GetItemAccepted
          /\ Goto(GetRecord, CheckDdbRecord,
                  Put(doc, "sdkget", GetItemResult(doc.body.orderid.val)))
       \/ Goto(GetRecord, ErrNotFound, doc)
    /\ UNCHANGED <<ddbTable, input, eventBus, executions, pvars>>

sdkGetDdbRecord ==
    /\ At(GetRecord)
    /\ \/ /\ GetItemAccepted
          /\ Goto(GetRecord, CheckDdbRecord,
                  Put(doc, "sdkget", GetItemResult(doc.body.orderid.val)))
       \/ \* rejected request, or a service error on an accepted one
          FailAt(GetRecord)
    /\ UNCHANGED <<ddbTable, input, eventBus, executions, pvars>>

checkDdbRecord ==
    /\ At(CheckDdbRecord)
    /\ IF ItemPresent
       THEN Goto(CheckDdbRecord, PassFound, doc)
       ELSE Goto(CheckDdbRecord, PassNotFound, doc)
    /\ UNCHANGED <<ddbTable, input, eventBus, executions, pvars>>

PassOrderIdFound ==
    /\ At(PassFound)
    /\ Goto(PassFound, LogFound,
            Put(doc, "recordFound", Field("$.sdkPut.Item", Str("$.sdkPut.Item"))))
    /\ UNCHANGED <<ddbTable, input, eventBus, executions, pvars>>

\* parameters {error, request.$: $}, resultPath $.error, outputPath $.error
ErrorWithRequest(msg, d) == Field("error", Str(msg)) @@ Field("request", d)

PassOrderIdNotFound ==
    /\ At(PassNotFound)
    /\ Goto(PassNotFound, ErrNotFound,
            Put(doc, "error", ErrorWithRequest(PassNotFound, doc))["error"])
    /\ UNCHANGED <<ddbTable, input, eventBus, executions, pvars>>

PassNoOrderIdField ==
    /\ At(PassNoOrderId)
    /\ Goto(PassNoOrderId, ErrNoOrderId,
            Put(doc, "error", ErrorWithRequest(PassNoOrderId, doc))["error"])
    /\ UNCHANGED <<ddbTable, input, eventBus, executions, pvars>>

\* Mutant: the put branch writes an item.
PassPutRequestWritesItem ==
    /\ At(PassPut)
    /\ Goto(PassPut, LogPut, Put(doc, "request", Field("method", Str("put"))))
    /\ ddbTable' = ddbTable \cup {"o1"}
    /\ UNCHANGED <<input, eventBus, executions, pvars>>

PassPutRequest ==
    /\ At(PassPut)
    /\ Goto(PassPut, LogPut, Put(doc, "request", Field("method", Str("put"))))
    /\ UNCHANGED <<ddbTable, input, eventBus, executions, pvars>>

PassUnknownMethodValue ==
    /\ At(PassUnknownMethod)
    /\ Goto(PassUnknownMethod, ErrUnknownMethod,
            Put(doc, "error", Field("error", Str(PassUnknownMethod)))["error"])
    /\ UNCHANGED <<ddbTable, input, eventBus, executions, pvars>>

PassNoMethodField ==
    /\ At(PassNoMethod)
    /\ Goto(PassNoMethod, ErrNoMethod,
            Put(doc, "error", Field("error", Str(PassNoMethod)))["error"])
    /\ UNCHANGED <<ddbTable, input, eventBus, executions, pvars>>

\* The entry the putEvents task built for logstring puts on the bus.
BusEntry(logstring) ==
    [Source |-> "custom.eventbus", DetailType |-> "eventDelivery",
     Detail |-> [event |-> logstring]]

putEventBridgeRecord(logstring) ==
    /\ At(logstring)
    /\ \/ /\ <<"events", "PutEvents">> \in StateMachineGrants
          /\ eventBus' = Append(eventBus, BusEntry(logstring))
          /\ EndAt(logstring, Put(doc, logstring, Field("FailedEntryCount", Num("0"))))
       \/ /\ eventBus' = eventBus
          /\ FailAt(logstring)
    /\ UNCHANGED <<ddbTable, input, executions, pvars>>

PutEventBridge == \E logstring \in LogStrings : putEventBridgeRecord(logstring)

InitDynamoVars ==
    /\ ddbTable \in SUBSET OrderIds
    /\ input = EmptyObject
    /\ doc = EmptyObject
    /\ state = ""
    /\ status = "idle"
    /\ history = <<>>
    /\ eventBus = <<>>
    /\ executions = 0

Next ==
    \/ StartExecution
    \/ CheckIfMethodFieldExists
    \/ CheckValueOfMethodField
    \/ CheckIfOrderIdFieldIsPresent
    \/ sdkGetDdbRecord
    \/ checkDdbRecord
    \/ PassOrderIdFound
    \/ PassOrderIdNotFound
    \/ PassNoOrderIdField
    \/ PassPutRequest
    \/ PassUnknownMethodValue
    \/ PassNoMethodField
    \/ PutEventBridge


\* ======================= parallel-get stack ===============================

\* ---- the table of the stack ------------------------------------------------
\* partitionKey 'id', sortKey 'name'
KeySchema == {"id", "name"}
Items == {[id |-> "sdkGet", name |-> "sdkGet"],
          [id |-> "lambdaGet", name |-> "lambdaGet"]}

\* Key of the get of the SDK integration and of the Lambda handlers.
SdkKey == [id |-> "sdkGet", name |-> "sdkGet"]
LambdaKey == [id |-> "lambdaGet"]

\* ---- values of the handlers -------------------------------------------------
HV(t, v, a) == [type |-> t, val |-> v, arg |-> a]
Undefined == HV("undefined", "", "")
RequestObject == HV("AWS.Request", "", "")
Data(item) == HV("data", item, "")
Err(code) == HV("error", code, "")
\* 'Unable to read from DynamoDB ' + error
Msg(e) == HV("string", "Unable to read from DynamoDB ", e.val)

\* What DynamoDB may answer to a get of key on the table: a key that does not
\* name exactly the attributes of the key schema is rejected; an accepted
\* get returns the item, or nothing, or a service error.
DdbGet(key) ==
    IF DOMAIN key # KeySchema
    THEN {Err("ValidationException")}
    ELSE {IF key \in ddbTableP THEN Data(key.id) ELSE Data("")}
         \cup {Err("ServiceUnavailable")}

Branches == <<"lamdbdaGetToDDB", "sdkGetToDDB">>
Range(f) == {f[i] : i \in DOMAIN f}

\* ---- the constructor of CdkApiStepfunctionStack ---------------------------
NewTable ==
    /\ ctor = 0
    /\ resources' = resources \cup {"Table"}
    /\ ctor' = 1
    /\ UNCHANGED <<dvars, grants, entry, ddbTableP, pstatus, lambdaBranch, sdkBranch,
                   branchOut, poutput, gets, hpc, request, settled, getcmd,
                   output, callbackRuns, hresult, pexecutions>>

NewDdbGetFunction ==
    /\ ctor = 1
    /\ resources' = resources \cup {"DdbGetFunction"}
    /\ ctor' = 2
    /\ UNCHANGED <<dvars, grants, entry, ddbTableP, pstatus, lambdaBranch, sdkBranch,
                   branchOut, poutput, gets, hpc, request, settled, getcmd,
                   output, callbackRuns, hresult, pexecutions>>

NewLogGroup ==
    /\ ctor = 2
    /\ resources' = resources \cup {"SfLogGroup"}
    /\ ctor' = 3
    /\ UNCHANGED <<dvars, grants, entry, ddbTableP, pstatus, lambdaBranch, sdkBranch,
                   branchOut, poutput, gets, hpc, request, settled, getcmd,
                   output, callbackRuns, hresult, pexecutions>>

NewStateMachine ==
    /\ ctor = 3
    /\ resources' = resources \cup {"StateMachine"}
    /\ ctor' = 4
    /\ UNCHANGED <<dvars, grants, entry, ddbTableP, pstatus, lambdaBranch, sdkBranch,
                   branchOut, poutput, gets, hpc, request, settled, getcmd,
                   output, callbackRuns, hresult, pexecutions>>

GrantReadWriteData ==
    /\ ctor \in {4, 5}
    /\ grants' = grants \cup
         {<<IF ctor = 4 THEN "StateMachine" ELSE "DdbGetFunction", "ReadWriteData">>}
    /\ ctor' = ctor + 1
    /\ UNCHANGED <<dvars, resources, entry, ddbTableP, pstatus, lambdaBranch, sdkBranch,
                   branchOut, poutput, gets, hpc, request, settled, getcmd,
                   output, callbackRuns, hresult, pexecutions>>

Synthesized == ctor = 6

\* ---- the Parallel state ------------------------------------------------------
hvars == <<hpc, request, settled, getcmd, output, callbackRuns, hresult>>
cvars == <<ctor, resources, grants, entry, ddbTableP>>

\* An execution starts: the Parallel state starts every branch added to it.
ParallelStart ==
    /\ Synthesized
    /\ pstatus # "running"
    /\ pexecutions < MaxParallelExecutions
    /\ pexecutions' = pexecutions + 1
    /\ pstatus' = "running"
    /\ lambdaBranch' = IF "lamdbdaGetToDDB" \in Range(Branches) THEN "running" ELSE "notstarted"
    /\ sdkBranch' = IF "sdkGetToDDB" \in Range(Branches) THEN "running" ELSE "notstarted"
    /\ branchOut' = [b \in {} |-> EmptyObject]
    /\ poutput' = <<>>
    /\ gets' = {}
    /\ hpc' = "idle"
    /\ request' = "none"
    /\ settled' = "no"
    /\ getcmd' = Undefined
    /\ output' = Undefined
    /\ callbackRuns' = 0
    /\ hresult' = [kind |-> "none", value |-> Undefined, callbackRuns |-> 0]
    /\ UNCHANGED <<dvars, cvars>>

\* Branch 2: the dynamodb:getItem task of the SDK integration.
sdkGetToDDB ==
    /\ pstatus = "running"
    /\ sdkBranch = "running"
    /\ gets' = gets \cup {[by |-> "sdkGetToDDB", key |-> SdkKey]}
    /\ \E r \in DdbGet(SdkKey) :
         IF r.type = "data" /\ <<"StateMachine", "ReadWriteData">> \in grants
         THEN /\ sdkBranch' = "succeeded"
              /\ branchOut' = Put(branchOut, "sdkGetToDDB", Field("sdkGet", r))
         ELSE /\ sdkBranch' = "failed"
              /\ branchOut' = branchOut
    /\ UNCHANGED <<dvars, cvars, hvars, pstatus, lambdaBranch, poutput, pexecutions>>

\* Branch 1: the LambdaInvoke task invokes the handler ...
lambdaGetDdbRecordInvoke ==
    /\ pstatus = "running"
    /\ lambdaBranch = "running"
    /\ hpc = "idle"
    /\ hpc' = "get"
    /\ UNCHANGED <<dvars, cvars, request, settled, getcmd, output, callbackRuns, hresult,
                   pstatus, lambdaBranch, sdkBranch, branchOut, poutput, gets,
                   pexecutions>>

\* ... and ends with the handler: its value under $.lambdaGet, or a failed task
\* when the handler rejected.
lambdaGetDdbRecordDone ==
    /\ pstatus = "running"
    /\ lambdaBranch = "running"
    /\ hpc = "done"
    /\ IF hresult.kind = "returned"
       THEN /\ lambdaBranch' = "succeeded"
            /\ branchOut' = Put(branchOut, "lamdbdaGetToDDB",
                                Field("lambdaGet", Field("Payload", hresult.value)))
       ELSE /\ lambdaBranch' = "failed"
            /\ branchOut' = branchOut
    /\ UNCHANGED <<dvars, cvars, hvars, pstatus, sdkBranch, poutput, gets, pexecutions>>

\* Mutant: the Parallel state does not wait for the Lambda branch.
ParallelSucceedOnFirstBranch ==
    /\ pstatus = "running"
    /\ sdkBranch = "succeeded"
    /\ pstatus' = "succeeded"
    /\ poutput' = [i \in DOMAIN Branches |->
                     IF Has(branchOut, Branches[i]) THEN branchOut[Branches[i]]
                     ELSE EmptyObject]
    /\ UNCHANGED <<dvars, cvars, hvars, lambdaBranch, sdkBranch, branchOut, gets,
                   pexecutions>>

\* The Parallel state succeeds when all its branches have: its output is the
\* array of the outputs of the branches.
ParallelSucceed ==
    /\ pstatus = "running"
    /\ lambdaBranch = "succeeded"
    /\ sdkBranch = "succeeded"
    /\ pstatus' = "succeeded"
    /\ poutput' = [i \in DOMAIN Branches |-> branchOut[Branches[i]]]
    /\ UNCHANGED <<dvars, cvars, hvars, lambdaBranch, sdkBranch, branchOut, gets, pexecutions>>

\* A failed branch fails the Parallel state and stops the other branch.
ParallelFail ==
    /\ pstatus = "running"
    /\ "failed" \in {lambdaBranch, sdkBranch}
    /\ pstatus' = "failed"
    /\ lambdaBranch' = IF lambdaBranch = "running" THEN "aborted" ELSE lambdaBranch
    /\ sdkBranch' = IF sdkBranch = "running" THEN "aborted" ELSE sdkBranch
    /\ UNCHANGED <<dvars, cvars, hvars, branchOut, poutput, gets, pexecutions>>


\* ---- the Lambda get handlers ------------------------------------------------
\* Frame of a handler step.
HandlerFrame == UNCHANGED <<dvars, cvars, pstatus, lambdaBranch, sdkBranch, branchOut,
                            poutput, pexecutions>>

\* ddbclient.get(params) is sent with the key of the handler.
SendGet ==
    /\ request' = "inflight"
    /\ gets' = gets \cup {[by |-> "lamdbdaGetToDDB", key |-> LambdaKey]}
    /\ hpc' = "await"

Returned(v) == [kind |-> "returned", value |-> v, callbackRuns |-> callbackRuns]
Rejected(e) == [kind |-> "rejected", value |-> e, callbackRuns |-> callbackRuns]

\* src/lambda/index.ts: await ddbclient.get(params, callback).promise()
IndexTsGet ==
    /\ entry = "index.ts"
    /\ hpc = "get"
    /\ SendGet
    /\ settled' = "no"
    /\ UNCHANGED <<getcmd, output, callbackRuns, hresult>>
    /\ HandlerFrame

\* The await resumes once the promise has settled: a rejection leaves the
\* async function, a resolution goes on to 'return output'.
IndexTsReturn ==
    /\ entry = "index.ts"
    /\ hpc = "await"
    /\ settled # "no"
    /\ hresult' = IF settled = "resolved" THEN Returned(output) ELSE Rejected(getcmd)
    /\ hpc' = "done"
    /\ UNCHANGED <<request, settled, getcmd, output, callbackRuns, gets>>
    /\ HandlerFrame

\* callback version: await ddbclient.get(params, callback). The awaited value
\* is the AWS.Request, not a promise: the await resumes on the next microtask.
CallbackGet ==
    /\ entry = "part_003"
    /\ hpc = "get"
    /\ SendGet
    /\ settled' = "resolved"
    /\ getcmd' = RequestObject
    /\ UNCHANGED <<output, callbackRuns, hresult>>
    /\ HandlerFrame

CallbackReturn ==
    /\ entry = "part_003"
    /\ hpc = "await"
    /\ settled # "no"
    /\ hresult' = Returned(output)
    /\ hpc' = "done"
    /\ UNCHANGED <<request, settled, getcmd, output, callbackRuns, gets>>
    /\ HandlerFrame

\* try/catch version: getcmd = await ddbclient.get(params).promise()
TryCatchGet ==
    /\ entry = "part_004"
    /\ hpc = "get"
    /\ SendGet
    /\ settled' = "no"
    /\ UNCHANGED <<getcmd, output, callbackRuns, hresult>>
    /\ HandlerFrame

\* Mutant: the catch block rethrows.
TryCatchReturnRethrows ==
    /\ entry = "part_004"
    /\ hpc = "await"
    /\ settled # "no"
    /\ hresult' = IF settled = "resolved" THEN Returned(getcmd) ELSE Rejected(getcmd)
    /\ hpc' = "done"
    /\ UNCHANGED <<request, settled, getcmd, output, callbackRuns, gets>>
    /\ HandlerFrame

TryCatchReturn ==
    /\ entry = "part_004"
    /\ hpc = "await"
    /\ settled # "no"
    /\ hresult' = IF settled = "resolved" THEN Returned(getcmd) ELSE Returned(Msg(getcmd))
    /\ hpc' = "done"
    /\ UNCHANGED <<request, settled, getcmd, output, callbackRuns, gets>>
    /\ HandlerFrame

HasCallback == entry \in {"index.ts", "part_003"}
HasPromise == entry \in {"index.ts", "part_004"}

\* What DynamoDB answers to the handler's get.
LambdaGetOutcomes ==
    IF <<"DdbGetFunction", "ReadWriteData">> \in grants
    THEN DdbGet(LambdaKey)
    ELSE {Err("AccessDeniedException")}

\* The response to the handler's get arrives (the 'complete' event of the
\* request): the callback runs, then the promise settles. An I/O event is
\* handled only when no microtask is pending.
RequestComplete ==
    /\ request = "inflight"
    /\ ~(hpc = "await" /\ settled # "no")
    /\ request' = "done"
    /\ \E r \in LambdaGetOutcomes :
         /\ IF HasCallback
            THEN output' = r /\ callbackRuns' = callbackRuns + 1
            ELSE UNCHANGED <<output, callbackRuns>>
         /\ IF HasPromise /\ hpc = "await"
            THEN /\ getcmd' = r
                 /\ settled' = IF r.type = "error" THEN "rejected" ELSE "resolved"
            ELSE UNCHANGED <<getcmd, settled>>
    /\ UNCHANGED <<hpc, hresult, gets>>
    /\ HandlerFrame

\* ---- specifications -----------------------------------------------------------
InitParallelVars ==
    /\ ctor = 0
    /\ resources = {}
    /\ grants = {}
    /\ entry \in {"index.ts", "part_003", "part_004"}
    /\ ddbTableP \in SUBSET Items
    /\ pstatus = "idle"
    /\ lambdaBranch = "notstarted"
    /\ sdkBranch = "notstarted"
    /\ branchOut = [b \in {} |-> EmptyObject]
    /\ poutput = <<>>
    /\ gets = {}
    /\ hpc = "idle"
    /\ request = "none"
    /\ settled = "no"
    /\ getcmd = Undefined
    /\ output = Undefined
    /\ callbackRuns = 0
    /\ hresult = [kind |-> "none", value |-> Undefined, callbackRuns |-> 0]
    /\ pexecutions = 0

\* The stack of Dynamo_StateMachine before it has run.
IdleDynamoVars ==
    /\ ddbTable = {}
    /\ input = EmptyObject
    /\ doc = EmptyObject
    /\ state = ""
    /\ status = "idle"
    /\ history = <<>>
    /\ eventBus = <<>>
    /\ executions = 0

\* The parallel-get stack before its constructor has run.
IdleParallelVars ==
    /\ InitParallelVars
    /\ entry = "index.ts"
    /\ ddbTableP = {}

NextParallel ==
    \/ NewTable
    \/ NewDdbGetFunction
    \/ NewLogGroup
    \/ NewStateMachine
    \/ GrantReadWriteData
    \/ ParallelStart
    \/ sdkGetToDDB
    \/ lambdaGetDdbRecordInvoke
    \/ lambdaGetDdbRecordDone
    \/ ParallelSucceed
    \/ ParallelFail
    \/ IndexTsGet
    \/ IndexTsReturn
    \/ CallbackGet
    \/ CallbackReturn
    \/ TryCatchGet
    \/ TryCatchReturn
    \/ RequestComplete

Init == InitDynamoVars /\ IdleParallelVars
Spec == Init /\ [][Next]_vars

InitParallel == InitParallelVars /\ IdleDynamoVars
SpecParallel == InitParallel /\ [][NextParallel]_vars

\* ======================= properties ========================================
Ended == status \in {"succeeded", "failed"}
LabelsReached == SelectSeq(history, LAMBDA s : s \in LogStrings)
Last(q) == q[Len(q)]

\* C1: every execution of Dynamo_StateMachine that has ended has run exactly
\* one putEvents task, and that task was its last state.
C1_EveryExecutionLogsOneEvent ==
    Ended => /\ Len(LabelsReached) = 1
             /\ Last(history) \in LogStrings

\* C2: the GetItem task runs only in an execution whose input has a
\* body.method field equal to the string 'get' and a body.orderid field.
C2_GetItemOnlyForValidGet ==
    GetRecord \in Range(history) =>
        /\ isPresent(input, "body", "method")
        /\ input.body.method = Str("get")
        /\ isPresent(input, "body", "orderid")

C2_Witness ==
    /\ GetRecord \in Range(history)
    /\ Ended

\* The label the input and the table content fix.
ExpectedLabel ==
    IF ~isPresent(input, "body", "method") THEN ErrNoMethod
    ELSE IF input.body.method = Str("put") THEN LogPut
    ELSE IF input.body.method # Str("get") THEN ErrUnknownMethod
    ELSE IF ~isPresent(input, "body", "orderid") THEN ErrNoOrderId
    ELSE IF input.body.orderid.type = "string" /\ input.body.orderid.val \in ddbTable
         THEN LogFound
         ELSE ErrNotFound

\* C3: every execution that has ended has reached exactly one event label,
\* the one fixed by its input and the table content.
C3_ExactlyTheExpectedLabel ==
    Ended => LabelsReached = <<ExpectedLabel>>

\* C4: an execution starts both branches of the Parallel state; the Parallel
\* state has succeeded only if both branches have, and its output then holds
\* the Lambda result under lambdaGet and the SDK result under sdkGet.
C4_ParallelJoinsBothBranches ==
    /\ pstatus # "idle" => lambdaBranch # "notstarted" /\ sdkBranch # "notstarted"
    /\ pstatus = "succeeded" =>
          /\ lambdaBranch = "succeeded"
          /\ sdkBranch = "succeeded"
          /\ Len(poutput) = 2
          /\ Has(poutput[1], "lambdaGet")
          /\ poutput[1].lambdaGet.Payload = hresult.value
          /\ Has(poutput[2], "sdkGet")
          /\ poutput[2].sdkGet = (IF SdkKey \in ddbTableP THEN Data("sdkGet") ELSE Data(""))

C4_Witness ==
    /\ pstatus = "succeeded"
    /\ Len(poutput) = 2

\* C5: the template synthesized from a freshly constructed stack has no
\* resources.
C5_EmptyStack ==
    Synthesized => resources = {}

C7_CallbackHandlerReturnsRecords ==
    (HasCallback /\ hresult.kind # "none") =>
        /\ hresult.kind = "returned"
        /\ hresult.callbackRuns = 1
        /\ hresult.value.type \in {"data", "error"}

\* C8: the try/catch handler never rejects: it returns the message built from
\* the error when the get rejected and the result of the get when it resolved,
\* and the Lambda task that invoked it does not fail.
C8_TryCatchNeverRejects ==
    entry = "part_004" =>
        /\ lambdaBranch # "failed"
        /\ hresult.kind # "none" =>
              /\ hresult.kind = "returned"
              /\ getcmd.type = "error" =>
                    hresult.value = HV("string", "Unable to read from DynamoDB ", getcmd.val)
              /\ getcmd.type # "error" => hresult.value = getcmd
        /\ lambdaBranch = "succeeded" =>
              branchOut["lamdbdaGetToDDB"].lambdaGet.Payload = hresult.value

C8_Witness ==
    /\ entry = "part_004"
    /\ hresult.kind = "returned"
    /\ getcmd.type = "error"
    /\ lambdaBranch = "succeeded"

\* C9: every get issued against the table names exactly the attributes of
\* the table's key schema.
C9_GetsNameTheWholeKey ==
    \A g \in gets : DOMAIN g.key = KeySchema

\* C10: no step of Dynamo_StateMachine changes the table, and the only
\* DynamoDB permission the state machine holds is read access.
C10_ReadOnlyTowardsDynamoDB ==
    [][ /\ ddbTable' = ddbTable
        /\ \A g \in StateMachineGrants : g[1] = "dynamodb" => g[2] = "ReadData"
      ]_vars

C10_Witness ==
    /\ status = "succeeded"
    /\ Last(history) = LogPut
    /\ input.body.method = Str("put")

====
